---- MODULE Spec2Model ----
(***************************************************************************)
(* Model of corecomposition/__main__.py: the build and analyze pipelines,  *)
(* the command-line entry point, and the two mass-radius model functions   *)
(* one_model and co_model.                                                 *)
(*                                                                         *)
(* Tables are sequences of rows, a row is a record of its columns.         *)
(* Floating-point columns are modelled by small integers; the files on     *)
(* disk are a function from path to content.                               *)
(*                                                                         *)
(* A run is entered either from the command line (entry = "cli", the       *)
(* namespace is the one argparse builds) or by calling build or analyze    *)
(* with a caller's namespace (entry = "call").  Every delegated call       *)
(* (build_catalog, measure_radius, join, fit_rvs, Table.write) either      *)
(* returns or raises.  The plotting branches of __main__ follow statements *)
(* that always raise when entered from the command line and are left out.  *)
(***************************************************************************)
EXTENDS Integers, Sequences, FiniteSets, TLC

VARIABLES entry, mode, args, config, pc, exc, steps, fs, writes,
          catalog, highmass, radii, joined, targets,
          obstable, rv_table, outfile,
          models, radarray, teffarray, kwargs, vg_array_one, vg_array_co

vars == <<entry, mode, args, config, pc, exc, steps, fs, writes,
          catalog, highmass, radii, joined, targets,
          obstable, rv_table, outfile,
          models, radarray, teffarray, kwargs, vg_array_one, vg_array_co>>

pipeVars == <<entry, mode, args, config, pc, exc, steps, fs, writes,
              catalog, highmass, radii, joined, targets,
              obstable, rv_table, outfile>>

modelVars == <<models, radarray, teffarray, kwargs, vg_array_one, vg_array_co>>

----------------------------------------------------------------------------
(* Bounds *)

MaxRows == 2
MaxTargets == 1
MaxSpectra == 2
MaxJoinTargets == 2
MaxJoinSpectra == 1
MaxId == 2
MaxMag == 2
MaxVal == 2
MaxErr == 1
MaxRadius == 1
MaxRad == 2
MaxMass == 2
MaxArr == 2

(* analyze: rows are kept when rv_spread < 1 *)
rv_spread_limit == 1

(* __main__: one_model(rad_array, 16278), co_model(rad_array, 16278) *)
teff_plot == 16278

IDs == 1..MaxId
Mags == 1..MaxMag
(* velocities: the two values up to MaxVal; errors of the full run: MaxErr *)
Vals == {MaxVal - 1, MaxVal}
Errs == {MaxErr}
Spreads == 0..rv_spread_limit
Paths == {"a.fits", "b.fits"}

None == "None"
Missing == "Missing"
Stale == [kind |-> "stale", rows |-> <<>>]
NoTable == <<>>

----------------------------------------------------------------------------
(* Tables *)

Tables(Rows, max) == UNION {[1..n -> Rows] : n \in 0..max}

CatalogRows == [wd_source_id : IDs, wd_phot_g_mean_mag : Mags]
TargetRows(errs) == [source_id : IDs, ms_rv : Vals, ms_erv : errs]
ObsRows(errs, spreads) ==
    [source_id : IDs, rv : Vals, e_rv : errs, rv_spread : spreads]

Range(s) == {s[i] : i \in 1..Len(s)}

Min(a, b) == IF a <= b THEN a ELSE b

RECURSIVE Pick(_, _, _)
Pick(s, S, i) ==
    IF i > Len(s) THEN <<>>
    ELSE (IF i \in S THEN <<s[i]>> ELSE <<>>) \o Pick(s, S, i + 1)

SubTables(s) == {Pick(s, S, 1) : S \in SUBSET (1..Len(s))}

Count(r, s) == Cardinality({i \in 1..Len(s) : s[i] = r})

SameRows(s, t) ==
    /\ Len(s) = Len(t)
    /\ \A r \in Range(s) \cup Range(t) : Count(r, s) = Count(r, t)

UniqueKeys(s, k) == \A i, j \in 1..Len(s) : s[i][k] = s[j][k] => i = j

----------------------------------------------------------------------------
(* astropy.table.join, inner join: it raises ValueError when either input  *)
(* table has no row; otherwise, for each key value present in both tables, *)
(* in ascending key order, every left row with that key is paired with     *)
(* every right row with that key.                                          *)

MergeRow(l, r) ==
    [c \in (DOMAIN l) \cup (DOMAIN r) |-> IF c \in DOMAIN l THEN l[c] ELSE r[c]]

RECURSIVE RowTimes(_, _, _)
RowTimes(l, R, j) ==
    IF j > Len(R) THEN <<>>
    ELSE <<MergeRow(l, R[j])>> \o RowTimes(l, R, j + 1)

RECURSIVE Product(_, _, _)
Product(L, R, i) ==
    IF i > Len(L) THEN <<>>
    ELSE RowTimes(L[i], R, 1) \o Product(L, R, i + 1)

JoinFromCross(L, R, kl, kr, k) == Product(L, R, 1)

RECURSIVE JoinFrom(_, _, _, _, _)
JoinFrom(L, R, kl, kr, k) ==
    IF k > MaxId THEN <<>>
    ELSE Product(SelectSeq(L, LAMBDA x : x[kl] = k),
                 SelectSeq(R, LAMBDA y : y[kr] = k), 1)
         \o JoinFrom(L, R, kl, kr, k + 1)

join(L, R, keys_left, keys_right) ==
    IF Len(L) = 0 \/ Len(R) = 0
    THEN [ok |-> FALSE, rows |-> <<>>, error |-> "ValueError"]
    ELSE [ok |-> TRUE, rows |-> JoinFrom(L, R, keys_left, keys_right, 1),
          error |-> "none"]

----------------------------------------------------------------------------
(* Table.sort(['wd_phot_g_mean_mag']): ascending; the order of rows with   *)
(* equal magnitude is not fixed by the sort, so every order is possible.   *)

RemoveAt(s, i) == SubSeq(s, 1, i - 1) \o SubSeq(s, i + 1, Len(s))

FirstIndex(s, r) == CHOOSE i \in 1..Len(s) : s[i] = r /\ \A j \in 1..(i - 1) : s[j] # r

SortFirstReverse(t, col) == {r \in Range(t) : \A q \in Range(t) : r[col] >= q[col]}

SortFirst(t, col) == {r \in Range(t) : \A q \in Range(t) : r[col] <= q[col]}

RECURSIVE sort(_, _)
sort(t, col) ==
    IF t = <<>> THEN {<<>>}
    ELSE UNION {{<<r>> \o s : s \in sort(RemoveAt(t, FirstIndex(t, r)), col)} :
                r \in SortFirst(t, col)}

----------------------------------------------------------------------------
(* analyze: mask = np.all([observation.table['rv_spread'] < 1], axis=0) *)
MaskedInclusive(t) == SelectSeq(t, LAMBDA r : r.rv_spread <= rv_spread_limit)

Masked(t) == SelectSeq(t, LAMBDA r : r.rv_spread < rv_spread_limit)

(* analyze: the RV table is written only when --rv-path was given *)
RvWritePathsNever(a) == {}

RvWritePaths(a) == IF a.rv_path # None THEN {a.rv_path} ELSE {}

(* analyze: outfile['gravz'] = rv - ms_rv; outfile['e_gravz'] = e_rv + ms_erv *)
gravz_reversed(r) == r.ms_rv - r.rv

gravz(r) == r.rv - r.ms_rv

e_gravz(r) == r.e_rv + r.ms_erv

WithGravz(t) ==
    [i \in 1..Len(t) |->
        [c \in (DOMAIN t[i]) \cup {"gravz", "e_gravz"} |->
            IF c = "gravz" THEN gravz(t[i])
            ELSE IF c = "e_gravz" THEN e_gravz(t[i])
            ELSE t[i][c]]]

----------------------------------------------------------------------------
(* Exceptions: nothing in the program catches one, so a raise ends the run *)
(* "CallFailed" is any exception raised inside a delegated call, the       *)
(* ValueError of a join on an empty table included.                        *)

NoExc == [type |-> "none", at |-> "none"]

RaiseAndContinue(type, at) ==
    /\ exc' = [type |-> type, at |-> at]
    /\ pc' = pc

Raise(type, at) ==
    /\ exc' = [type |-> type, at |-> at]
    /\ pc' = "raised"

Call(name) == steps' = Append(steps, name)

(* Table.write(path, overwrite=True) that raises: the file at path is as   *)
(* it was, or it was removed or partly written before the raise            *)
Broken == [kind |-> "broken", rows |-> <<>>]

FailedWrite(path) ==
    /\ fs' \in {fs, [fs EXCEPT ![path] = Broken]}
    /\ UNCHANGED writes

Write(path, kind, table) ==
    /\ fs' = [fs EXCEPT ![path] = [kind |-> kind, rows |-> table]]
    /\ writes' = Append(writes, [path |-> path, kind |-> kind])

(* argparse namespace of __main__: it has outfile, rv_path (default None)   *)
(* and obspath, but neither catfile nor obs_path.  A direct caller of      *)
(* build passes a namespace that has catfile.  Only the attributes a mode  *)
(* reads vary, and outfile is one fixed path: rv_path ranges over None,     *)
(* that path and another one.                                              *)
ParserArgs(m) ==
    [catfile : {Missing}, obs_path : {Missing}, outfile : {"a.fits"},
     rv_path : IF m = "analyze" THEN {None} \cup Paths ELSE {None}]

CallerArgs(m) ==
    [catfile : IF m = "build" THEN Paths ELSE {Missing}, obs_path : {Missing},
     outfile : {"a.fits"},
     rv_path : IF m = "analyze" THEN {None} \cup Paths ELSE {None}]

Sections == {"catalog", "radius"}

----------------------------------------------------------------------------
Init ==
    /\ entry \in {"cli", "call"}
    /\ mode \in {"build", "analyze"}
    /\ args \in IF entry = "cli" THEN ParserArgs(mode) ELSE CallerArgs(mode)
    /\ config \in IF mode = "build" THEN SUBSET Sections ELSE {Sections}
    /\ pc = "start"
    /\ exc = NoExc
    /\ steps = <<>>
    /\ fs = [p \in Paths |-> Stale]
    /\ writes = <<>>
    /\ catalog = NoTable /\ highmass = NoTable /\ radii = NoTable
    /\ joined = NoTable /\ targets = NoTable
    /\ obstable = NoTable /\ rv_table = NoTable /\ outfile = NoTable
    /\ models = <<>> /\ radarray = <<>> /\ teffarray = 0 /\ kwargs = <<>>
    /\ vg_array_one = <<>> /\ vg_array_co = <<>>

(* __main__: if args.mode == 'build': build(config, args) *)
MainBuild ==
    /\ pc = "start" /\ entry = "cli" /\ mode = "build"
    /\ pc' = "b_config"
    /\ UNCHANGED <<entry, mode, args, config, exc, steps, fs, writes,
                   catalog, highmass, radii, joined, targets,
                   obstable, rv_table, outfile, modelVars>>

(* build(config, args) called with a caller's argument namespace *)
CallBuild ==
    /\ pc = "start" /\ entry = "call" /\ mode = "build"
    /\ pc' = "b_config"
    /\ UNCHANGED <<entry, mode, args, config, exc, steps, fs, writes,
                   catalog, highmass, radii, joined, targets,
                   obstable, rv_table, outfile, modelVars>>

(* build: catalog_params = config['catalog']; radius_params = config['radius'] *)
BuildConfig ==
    /\ pc = "b_config"
    /\ IF Sections \subseteq config
       THEN pc' = "b_catalog" /\ UNCHANGED exc
       ELSE Raise("KeyError", "config")
    /\ UNCHANGED <<entry, mode, args, config, steps, fs, writes,
                   catalog, highmass, radii, joined, targets,
                   obstable, rv_table, outfile, modelVars>>

(* build: catalog, highmass = build_catalog(catalog_params, args) *)
build_catalog ==
    /\ pc = "b_catalog"
    /\ Call("build_catalog")
    /\ \/ /\ \E c \in Tables(CatalogRows, MaxRows) : \E h \in SubTables(c) :
                catalog' = c /\ highmass' = h
          /\ pc' = "b_radius" /\ UNCHANGED exc
       \/ /\ Raise("CallFailed", "build_catalog")
          /\ UNCHANGED <<catalog, highmass>>
    /\ UNCHANGED <<entry, mode, args, config, fs, writes,
                   radii, joined, targets,
                   obstable, rv_table, outfile, modelVars>>

(* one row of radii for each high-mass object whose radius was measured *)
Measured(h) ==
    UNION {{[i \in 1..Len(m) |-> [source_id |-> m[i].wd_source_id, radius |-> v[i]]] :
               v \in [1..Len(m) -> 1..MaxRadius]} :
           m \in SubTables(h)}

(* build: radii, engine_keys = measure_radius(highmass, radius_params, args) *)
measure_radius ==
    /\ pc = "b_radius"
    /\ Call("measure_radius")
    /\ \/ /\ radii' \in Measured(highmass)
          /\ pc' = "b_join" /\ UNCHANGED exc
       \/ /\ Raise("CallFailed", "measure_radius")
          /\ UNCHANGED radii
    /\ UNCHANGED <<entry, mode, args, config, fs, writes,
                   catalog, highmass, joined, targets,
                   obstable, rv_table, outfile, modelVars>>

(* build: targets = join(catalog, radii, keys_left='wd_source_id', keys_right='source_id') *)
BuildJoin ==
    /\ pc = "b_join"
    /\ Call("join")
    /\ \/ /\ join(catalog, radii, "wd_source_id", "source_id").ok
          /\ joined' = join(catalog, radii, "wd_source_id", "source_id").rows
          /\ targets' = joined'
          /\ pc' = "b_sort" /\ UNCHANGED exc
       \/ /\ Raise("CallFailed", "join")
          /\ UNCHANGED <<joined, targets>>
    /\ UNCHANGED <<entry, mode, args, config, fs, writes,
                   catalog, highmass, radii,
                   obstable, rv_table, outfile, modelVars>>

(* build: targets.sort(['wd_phot_g_mean_mag']) *)
BuildSort ==
    /\ pc = "b_sort"
    /\ Call("sort")
    /\ targets' \in sort(targets, "wd_phot_g_mean_mag")
    /\ pc' = "b_write"
    /\ UNCHANGED <<entry, mode, args, config, exc, fs, writes,
                   catalog, highmass, radii, joined,
                   obstable, rv_table, outfile, modelVars>>

(* build: targets.write(args.catfile, overwrite=True); return *)
BuildWrite ==
    /\ pc = "b_write"
    /\ IF args.catfile = Missing
       THEN /\ Raise("AttributeError", "catfile")
            /\ UNCHANGED <<steps, fs, writes>>
       ELSE /\ Call("write")
            /\ \/ /\ Write(args.catfile, "targets", targets)
                  /\ pc' = "done" /\ UNCHANGED exc
               \/ /\ Raise("CallFailed", "write")
                  /\ FailedWrite(args.catfile)
    /\ UNCHANGED <<entry, mode, args, config,
                   catalog, highmass, radii, joined, targets,
                   obstable, rv_table, outfile, modelVars>>

(* __main__: if args.mode == 'analyze': targets = Table.read(args.obs_path) *)
(* the parser declares --obspath, so the namespace has no obs_path          *)
MainAnalyze ==
    /\ pc = "start" /\ entry = "cli" /\ mode = "analyze"
    /\ args.obs_path = Missing
    /\ Raise("AttributeError", "obs_path")
    /\ UNCHANGED <<entry, mode, args, config, steps, fs, writes,
                   catalog, highmass, radii, joined, targets,
                   obstable, rv_table, outfile, modelVars>>

(* analyze(targets, config, args) called with a caller's targets table *)
CallAnalyze ==
    /\ pc = "start" /\ entry = "call" /\ mode = "analyze"
    /\ targets' \in Tables(TargetRows(Errs), MaxTargets)
    /\ pc' = "a_fit"
    /\ UNCHANGED <<entry, mode, args, config, exc, steps, fs, writes,
                   catalog, highmass, radii, joined,
                   obstable, rv_table, outfile, modelVars>>

(* analyze: observation.fit_rvs(...); mask; rv_table = observation.table[mask] *)
fit_rvs ==
    /\ pc = "a_fit"
    /\ Call("fit_rvs")
    /\ \/ /\ obstable' \in Tables(ObsRows(Errs, Spreads), MaxSpectra)
          /\ rv_table' = Masked(obstable')
          /\ pc' = "a_rvwrite" /\ UNCHANGED exc
       \/ /\ Raise("CallFailed", "fit_rvs")
          /\ UNCHANGED <<obstable, rv_table>>
    /\ UNCHANGED <<entry, mode, args, config, fs, writes,
                   catalog, highmass, radii, joined, targets,
                   outfile, modelVars>>

(* analyze: if args.rv_path is not None: rv_table.write(args.rv_path, overwrite=True) *)
AnalyzeWriteRv ==
    /\ pc = "a_rvwrite"
    /\ IF RvWritePaths(args) = {}
       THEN pc' = "a_join" /\ UNCHANGED <<exc, steps, fs, writes>>
       ELSE /\ Call("write_rv")
            /\ \/ /\ \E p \in RvWritePaths(args) : Write(p, "rv_table", rv_table)
                  /\ pc' = "a_join" /\ UNCHANGED exc
               \/ /\ Raise("CallFailed", "write_rv")
                  /\ FailedWrite(args.rv_path)
    /\ UNCHANGED <<entry, mode, args, config,
                   catalog, highmass, radii, joined, targets,
                   obstable, rv_table, outfile, modelVars>>

(* analyze: outfile = join(targets, rv_table, keys='source_id'); gravz; e_gravz *)
AnalyzeJoin ==
    /\ pc = "a_join"
    /\ Call("join")
    /\ \/ /\ join(targets, rv_table, "source_id", "source_id").ok
          /\ outfile' = WithGravz(join(targets, rv_table, "source_id", "source_id").rows)
          /\ pc' = "a_write" /\ UNCHANGED exc
       \/ /\ Raise("CallFailed", "join")
          /\ UNCHANGED outfile
    /\ UNCHANGED <<entry, mode, args, config, fs, writes,
                   catalog, highmass, radii, joined, targets,
                   obstable, rv_table, modelVars>>

(* analyze: outfile.write(args.outfile, overwrite=True); return outfile, rv_table *)
AnalyzeWrite ==
    /\ pc = "a_write"
    /\ Call("write")
    /\ \/ /\ Write(args.outfile, "outfile", outfile)
          /\ pc' = "done" /\ UNCHANGED exc
       \/ /\ Raise("CallFailed", "write")
          /\ FailedWrite(args.outfile)
    /\ UNCHANGED <<entry, mode, args, config,
                   catalog, highmass, radii, joined, targets,
                   obstable, rv_table, outfile, modelVars>>

Next ==
    \/ MainBuild
    \/ CallBuild
    \/ BuildConfig
    \/ build_catalog
    \/ measure_radius
    \/ BuildJoin
    \/ BuildSort
    \/ BuildWrite
    \/ MainAnalyze
    \/ CallAnalyze
    \/ fit_rvs
    \/ AnalyzeWriteRv
    \/ AnalyzeJoin
    \/ AnalyzeWrite

Spec == Init /\ [][Next]_vars

----------------------------------------------------------------------------
(* The tail of analyze (join, gravz, e_gravz, write) as one step on the    *)
(* targets table analyze is called with and an RV table that has passed    *)
(* the mask, with velocity and error columns that both vary.               *)

MaskedRows == ObsRows(Vals, {x \in Spreads : x < rv_spread_limit})

InitRows ==
    /\ entry = "call" /\ mode = "rows"
    /\ args = [catfile |-> Missing, obs_path |-> Missing,
               outfile |-> "a.fits", rv_path |-> None]
    /\ config = Sections
    /\ pc = "a_join"
    /\ exc = NoExc
    /\ steps = <<"fit_rvs">>
    /\ fs = [p \in Paths |-> Stale]
    /\ writes = <<>>
    /\ catalog = NoTable /\ highmass = NoTable /\ radii = NoTable
    /\ joined = NoTable
    /\ targets \in Tables(TargetRows(Vals), MaxJoinTargets)
    /\ obstable = NoTable /\ rv_table = NoTable /\ outfile = NoTable
    /\ models = <<>> /\ radarray = <<>> /\ teffarray = 0 /\ kwargs = <<>>
    /\ vg_array_one = <<>> /\ vg_array_co = <<>>

(* analyze: outfile = join(targets, rv_table, keys='source_id'); gravz;    *)
(* e_gravz; outfile.write(args.outfile, overwrite=True)                    *)
AnalyzeRows ==
    /\ mode = "rows" /\ pc = "a_join"
    /\ \E r \in Tables(MaskedRows, MaxJoinSpectra) :
          /\ obstable' = r /\ rv_table' = r
          /\ \/ /\ join(targets, r, "source_id", "source_id").ok
                /\ outfile' = WithGravz(join(targets, r, "source_id", "source_id").rows)
                /\ steps' = steps \o <<"join", "write">>
                /\ \/ /\ Write(args.outfile, "outfile", outfile')
                      /\ pc' = "done" /\ UNCHANGED exc
                   \/ /\ Raise("CallFailed", "write")
                      /\ FailedWrite(args.outfile)
             \/ /\ steps' = steps \o <<"join">>
                /\ Raise("CallFailed", "join")
                /\ UNCHANGED <<outfile, fs, writes>>
    /\ UNCHANGED <<entry, mode, args, config, targets,
                   catalog, highmass, radii, joined, modelVars>>

NextRows == AnalyzeRows

SpecRows == InitRows /\ [][NextRows]_vars

----------------------------------------------------------------------------
(* one_model and co_model.  A value is a rational multiple of a product of *)
(* powers of the physical constants and of ten, kept symbolically so that  *)
(* the arithmetic is exact.                                                *)

Unset == <<>>

RECURSIVE GCD(_, _)
GCD(a, b) == IF b = 0 THEN a ELSE GCD(b, a % b)

Quantity(n, d, g, ms, c, rs, t) ==
    [num |-> n \div GCD(n, d), den |-> d \div GCD(n, d),
     G |-> g, mass_sun |-> ms, speed_light |-> c, radius_sun |-> rs, ten |-> t]

Scalar(n) == Quantity(n, 1, 0, 0, 0, 0, 0)

radius_sun == Quantity(1, 1, 0, 0, 0, 1, 0)
mass_sun == Quantity(1, 1, 0, 1, 0, 0, 0)
newton_G == Quantity(1, 1, 1, 0, 0, 0, 0)
speed_light == Quantity(1, 1, 0, 0, 1, 0, 0)
milli == Quantity(1, 1, 0, 0, 0, 0, 0 - 3)

Times(a, b) ==
    Quantity(a.num * b.num, a.den * b.den, a.G + b.G, a.mass_sun + b.mass_sun,
             a.speed_light + b.speed_light, a.radius_sun + b.radius_sun,
             a.ten + b.ten)

Over(a, b) ==
    Quantity(a.num * b.den, a.den * b.num, a.G - b.G, a.mass_sun - b.mass_sun,
             a.speed_light - b.speed_light, a.radius_sun - b.radius_sun,
             a.ten - b.ten)

Rads == 1..MaxRad
Teffs == {teff_plot}
Masses == 1..MaxMass
Flags == {"f", "o"}

(* a loaded grid, as the mass it interpolates to at each (radius, teff) *)
Grids == [Rads \X Teffs -> Masses]

ONeKey == <<"ft", "ft", "o">>
COKey == <<"ft", "ft", "ft">>

(* WD_models.load_model(low, middle, high, ...) *)
load_model(low, middle, high) == models[<<low, middle, high>>]

(* WD_models.interp_xy_z_func(x = rsun, y = 10**logteff, z = mass_array) *)
interp_xy_z_func(grid, r, t) == grid[<<r, t>>]

one_model(rad, teff, lowmass, midmass, highmass_kw) ==
    LET ONe_model == load_model("ft", "ft", "o")
    IN  [i \in 1..Len(rad) |->
            LET mass == Times(Scalar(interp_xy_z_func(ONe_model, rad[i], teff)), mass_sun)
                radius == Times(Scalar(rad[i]), radius_sun)
                rv == Over(Times(newton_G, mass), Times(speed_light, radius))
            IN  Times(rv, milli)]

co_model_unscaled(rad, teff, lowmass, midmass, highmass_kw) ==
    LET CO_model == load_model("ft", "ft", "ft")
    IN  [i \in 1..Len(rad) |->
            LET mass == Times(Scalar(interp_xy_z_func(CO_model, rad[i], teff)), mass_sun)
                radius == Times(Scalar(rad[i]), radius_sun)
            IN  Over(Times(newton_G, mass), Times(speed_light, radius))]

co_model(rad, teff, lowmass, midmass, highmass_kw) ==
    LET CO_model == load_model("ft", "ft", "ft")
    IN  [i \in 1..Len(rad) |->
            LET mass == Times(Scalar(interp_xy_z_func(CO_model, rad[i], teff)), mass_sun)
                radius == Times(Scalar(rad[i]), radius_sun)
                rv == Over(Times(newton_G, mass), Times(speed_light, radius))
            IN  Times(rv, milli)]

InitModels ==
    /\ entry = "call" /\ mode = "models"
    /\ args = [catfile |-> Missing, obs_path |-> Missing,
               outfile |-> "a.fits", rv_path |-> None]
    /\ config = Sections
    /\ pc = "start"
    /\ exc = NoExc
    /\ steps = <<>>
    /\ fs = [p \in Paths |-> Stale]
    /\ writes = <<>>
    /\ catalog = NoTable /\ highmass = NoTable /\ radii = NoTable
    /\ joined = NoTable /\ targets = NoTable
    /\ obstable = NoTable /\ rv_table = NoTable /\ outfile = NoTable
    /\ models \in [{ONeKey, COKey} -> Grids]
    /\ radarray \in UNION {[1..n -> Rads] : n \in 1..MaxArr}
    /\ teffarray \in Teffs
    /\ kwargs \in [lowmass : Flags, midmass : Flags, highmass : Flags]
    /\ vg_array_one = Unset /\ vg_array_co = Unset

(* vg_array_one = one_model(rad_array, teff) *)
CallOneModel ==
    /\ mode = "models" /\ vg_array_one = Unset
    /\ vg_array_one' = one_model(radarray, teffarray, kwargs.lowmass,
                                 kwargs.midmass, kwargs.highmass)
    /\ UNCHANGED <<pipeVars, models, radarray, teffarray, kwargs, vg_array_co>>

(* vg_array_co = co_model(rad_array, teff) *)
CallCoModel ==
    /\ mode = "models" /\ vg_array_co = Unset
    /\ vg_array_co' = co_model(radarray, teffarray, kwargs.lowmass,
                               kwargs.midmass, kwargs.highmass)
    /\ UNCHANGED <<pipeVars, models, radarray, teffarray, kwargs, vg_array_one>>

NextModels ==
    \/ CallOneModel
    \/ CallCoModel

SpecModels == InitModels /\ [][NextModels]_vars

----------------------------------------------------------------------------
(* Properties *)

Terminated == pc \in {"done", "raised"}

Called(name) == name \in Range(steps)

Returned(name) == Called(name) /\ ~(exc.type = "CallFailed" /\ exc.at = name)

IsPrefix(s, t) == Len(s) <= Len(t) /\ \A i \in 1..Len(s) : s[i] = t[i]

BuildOrder == <<"build_catalog", "measure_radius", "join", "write">>

BuildSteps == SelectSeq(steps, LAMBDA x : x \in Range(BuildOrder))

BuildJoinRows ==
    (mode = "build" /\ Returned("join"))
        => Len(joined) <= Min(Len(catalog), Len(radii))

AnalyzeJoinRows ==
    (mode = "analyze" /\ Returned("join"))
        => Len(outfile) <= Min(Len(targets), Len(rv_table))

(* C1, as stated: after either join the output has at most as many rows as *)
(* the smaller input, whatever the key columns hold.                       *)
C1_JoinRowsAtMostMin == BuildJoinRows /\ AnalyzeJoinRows

(* C1, amended: after either join whose two inputs each hold every key     *)
(* value in at most one row, the output has at most as many rows as the    *)
(* smaller input.                                                          *)
C1_JoinRowsAtMostMinUniqueKeys ==
    /\ (UniqueKeys(catalog, "wd_source_id") /\ UniqueKeys(radii, "source_id"))
           => BuildJoinRows
    /\ (UniqueKeys(targets, "source_id") /\ UniqueKeys(rv_table, "source_id"))
           => AnalyzeJoinRows

C1_Witness ==
    /\ mode = "build" /\ Returned("join")
    /\ UniqueKeys(catalog, "wd_source_id") /\ UniqueKeys(radii, "source_id")
    /\ Len(catalog) = 2 /\ Len(radii) = 2 /\ Len(joined) = 2

(* C2: a command-line run in build mode in which the config has both       *)
(* sections and no delegated call fails ends without an exception, having  *)
(* written the sorted joined table to a path taken from the arguments.     *)
C2_BuildRunWritesTargets ==
    (entry = "cli" /\ mode = "build" /\ Sections \subseteq config
        /\ Terminated /\ exc.type # "CallFailed")
        => /\ pc = "done"
           /\ \E p \in Paths : fs[p] = [kind |-> "targets", rows |-> targets]

(* C3: a command-line run in analyze mode in which no delegated call fails *)
(* runs analyze and writes the joined RV/target table to args.outfile.     *)
C3_AnalyzeRunWritesOutfile ==
    (entry = "cli" /\ mode = "analyze" /\ Terminated /\ exc.type # "CallFailed")
        => /\ pc = "done"
           /\ Called("fit_rvs")
           /\ fs[args.outfile] = [kind |-> "outfile", rows |-> outfile]

(* C4: once a call has raised, the run is over: the exception is never     *)
(* caught, the failing call is the last step that was started and was      *)
(* started once, and no later step changes anything (no file is written).  *)
C4_RaisedState ==
    exc # NoExc =>
        /\ pc = "raised"
        /\ exc.type = "CallFailed" =>
              /\ steps # <<>> /\ steps[Len(steps)] = exc.at
              /\ Count(exc.at, steps) = 1

C4_NoErrorHandling == [](C4_RaisedState) /\ [][exc = NoExc /\ pc # "raised"]_vars

C4_Witness ==
    /\ mode = "analyze" /\ pc = "raised"
    /\ exc = [type |-> "CallFailed", at |-> "join"]
    /\ Len(writes) = 1

(* C5: in every run of build the steps build_catalog, measure_radius, join *)
(* and write are started in that order, each at most once, and a run in    *)
(* which the config has both sections and no delegated call fails has      *)
(* executed all four when it ends.                                         *)
C5_BuildStepsInOrder ==
    mode = "build" =>
        /\ IsPrefix(BuildSteps, BuildOrder)
        /\ (Terminated /\ Sections \subseteq config /\ exc.type # "CallFailed")
               => BuildSteps = BuildOrder

(* C6: each model function returns G * M(radius, teff) * mass_sun /        *)
(* (c * radius * radius_sun) * 1e-3 for the grid it loads, whatever the    *)
(* lowmass/midmass/highmass arguments are, so on equal grids the two       *)
(* functions return the same array.                                        *)
Redshift(grid, rad, teff) ==
    [i \in 1..Len(rad) |->
        Quantity(grid[<<rad[i], teff>>], rad[i], 1, 1, 0 - 1, 0 - 1, 0 - 3)]

C6_ModelsAgree ==
    mode = "models" =>
        /\ vg_array_one # Unset
               => vg_array_one = Redshift(models[ONeKey], radarray, teffarray)
        /\ vg_array_co # Unset
               => vg_array_co = Redshift(models[COKey], radarray, teffarray)
        /\ (vg_array_one # Unset /\ vg_array_co # Unset
               /\ models[ONeKey] = models[COKey])
               => vg_array_one = vg_array_co

C6_Witness ==
    /\ mode = "models" /\ vg_array_one # Unset /\ vg_array_co # Unset
    /\ models[ONeKey] = models[COKey]
    /\ kwargs.highmass = "o" /\ Len(radarray) = 2 /\ radarray[1] # radarray[2]
    /\ vg_array_one[1] # vg_array_one[2]

(* C7: every row of the table analyze writes pairs a row of targets with a *)
(* row of the filtered RV table that has the same source_id, and has       *)
(* gravz = rv - ms_rv and e_gravz = e_rv + ms_erv.                         *)
GravzRow(r) ==
    /\ \E t \in Range(targets) : \E v \in Range(rv_table) :
          /\ t.source_id = r.source_id /\ v.source_id = r.source_id
          /\ r.ms_rv = t.ms_rv /\ r.ms_erv = t.ms_erv
          /\ r.rv = v.rv /\ r.e_rv = v.e_rv
    /\ r.gravz = r.rv - r.ms_rv
    /\ r.e_gravz = r.e_rv + r.ms_erv

C7_GravzRows ==
    (mode \in {"analyze", "rows"} /\ pc = "done") =>
        /\ fs[args.outfile].kind = "outfile"
        /\ fs[args.outfile].rows = outfile
        /\ \A r \in Range(outfile) : GravzRow(r)

C7_Witness ==
    /\ mode = "rows" /\ pc = "done"
    /\ Len(fs[args.outfile].rows) = 2
    /\ \E i, j \in 1..2 :
          /\ fs[args.outfile].rows[i].gravz < 0
          /\ fs[args.outfile].rows[j].gravz = 0
          /\ fs[args.outfile].rows[i].e_gravz # fs[args.outfile].rows[j].e_gravz
          /\ fs[args.outfile].rows[i].e_rv # fs[args.outfile].rows[i].rv

(* C8: the table build writes holds exactly the rows of the join, in       *)
(* ascending order of wd_phot_g_mean_mag.                                  *)
Ascending(t, col) == \A i \in 1..(Len(t) - 1) : t[i][col] <= t[i + 1][col]

C8_WrittenSorted ==
    (mode = "build" /\ pc = "done") =>
        /\ fs[args.catfile].kind = "targets"
        /\ Ascending(fs[args.catfile].rows, "wd_phot_g_mean_mag")
        /\ SameRows(fs[args.catfile].rows, joined)

C8_Witness ==
    /\ mode = "build" /\ pc = "done"
    /\ Len(fs[args.catfile].rows) = 2
    /\ ~Ascending(joined, "wd_phot_g_mean_mag")

(* C9: the RV table holds exactly the rows of the fitted observation table *)
(* with rv_spread < 1, and so do the RV file and the joined output.        *)
SpreadBelowOne(t) == \A r \in Range(t) : r.rv_spread < 1

C9_RvTableFiltered ==
    (mode = "analyze" /\ Returned("fit_rvs")) =>
        /\ SpreadBelowOne(rv_table)
        /\ \A r \in Range(obstable) :
              r.rv_spread < 1 => Count(r, rv_table) = Count(r, obstable)
        /\ Range(rv_table) \subseteq Range(obstable)
        /\ SpreadBelowOne(outfile)
        /\ \A p \in Paths : fs[p].kind = "rv_table" => fs[p].rows = rv_table

C9_Witness ==
    /\ mode = "analyze" /\ pc = "done"
    /\ Len(obstable) = 2
    /\ obstable[1].rv_spread = rv_spread_limit
    /\ obstable[2].rv_spread < rv_spread_limit
    /\ obstable[1].source_id = obstable[2].source_id
    /\ rv_table = <<obstable[2]>>
    /\ \E p \in Paths : fs[p] = [kind |-> "rv_table", rows |-> rv_table]
    /\ Len(outfile) = 1 /\ fs[args.outfile].rows = outfile

(* C10, as stated: analyze writes the RV table if and only if rv_path is   *)
(* given, to rv_path and before the join is called; without rv_path the    *)
(* only file it writes is outfile; the RV file is in place when the join   *)
(* or the write of outfile fails.                                          *)
RvWritten == \E i \in 1..Len(writes) : writes[i].kind = "rv_table"

RvFileInPlace == fs[args.rv_path] = [kind |-> "rv_table", rows |-> rv_table]

RvWriteOrder ==
    /\ \A i \in 1..Len(writes) :
          \/ writes[i] = [path |-> args.outfile, kind |-> "outfile"]
          \/ /\ args.rv_path # None /\ i = 1
             /\ writes[i] = [path |-> args.rv_path, kind |-> "rv_table"]
    /\ Called("join") => (RvWritten <=> args.rv_path # None)
    /\ (RvWritten /\ Called("join"))
           => \/ steps = <<"fit_rvs", "write_rv", "join">>
              \/ steps = <<"fit_rvs", "write_rv", "join", "write">>

C10_RvFileStays ==
    mode = "analyze" =>
        /\ RvWriteOrder
        /\ (args.rv_path # None /\ pc = "raised" /\ exc.type = "CallFailed"
              /\ exc.at \in {"join", "write"})
               => RvFileInPlace

(* C10, amended: as stated, except that the RV file is in place after a    *)
(* failing write of outfile only when outfile is another path than         *)
(* rv_path.                                                                *)
C10_RvFileIffRvPath ==
    mode = "analyze" =>
        /\ RvWriteOrder
        /\ (args.rv_path # None /\ pc = "raised" /\ exc.type = "CallFailed"
              /\ (exc.at = "join" \/ (exc.at = "write" /\ args.outfile # args.rv_path)))
               => RvFileInPlace

C10_Witness ==
    /\ mode = "analyze" /\ pc = "raised"
    /\ exc = [type |-> "CallFailed", at |-> "join"]
    /\ args.rv_path # None
    /\ fs[args.rv_path].kind = "rv_table" /\ Len(fs[args.rv_path].rows) = 1
====
